---- MODULE Spec2Model ----
(***************************************************************************)
(* Two stand-alone scripts of the repository:                              *)
(*                                                                         *)
(*   src/edit_import_view_ids.py  the anchored text patcher                *)
(*   src/create_icon.py           the icon renderer                        *)
(*                                                                         *)
(* A text is a sequence of characters.  The characters that matter to the  *)
(* patcher are the carriage return and the line feed; the body of each     *)
(* line of the two literals of the script is kept as one symbol, since no  *)
(* operation of the script looks inside a line.                            *)
(***************************************************************************)
EXTENDS Integers, Sequences, FiniteSets, TLC

VARIABLES
    fs,         \* the file src/components/Import/ImportView.tsx: File(content) or Missing
    linesep,    \* os.linesep of the platform the script runs on
    pc,         \* position of the current run of the patcher
    text,       \* the script's variable `text`
    steps,      \* the steps the current run has executed, in order
    writes,     \* number of write_text calls completed by the current run
    fsBefore,   \* stored content when the current run started
    fsInitial,  \* stored content before the first run
    outcomes,   \* how each finished run ended, oldest first
    fsAfter,    \* stored content after each finished run, oldest first
    ipc,        \* position of create_video_downloader_icon
    img,        \* the Image object: its size and its mode
    probe,      \* the pixel of the canvas that is observed, <<x, y>>
    px,         \* the RGBA value the canvas holds at the observed pixel
    i,          \* the loop variable of the ring loop
    calls       \* the draw calls made so far, in order

patcherVars == <<fs, linesep, pc, text, steps, writes, fsBefore, fsInitial, outcomes, fsAfter>>

iconVars == <<ipc, img, probe, px, i, calls>>

vars == <<patcherVars, iconVars>>

----------------------------------------------------------------------------
(* Characters and the two literals of the script. *)

CR == "\r"
LF == "\n"

L1 == "      const createdCount = createdTasks.length;"
L2 == "      const totalRows = importPreview.total_rows;"
L4 == "      if (createdCount === 0) {"
N1 == "      const newTaskIds = createdTasks.map(task => task.id);"
N2 == "      setLatestImportTaskIds(newTaskIds);"
N3 == "      useDownloadStore.setState({ selectedTasks: newTaskIds });"

old == <<L1, CR, LF, L2, CR, LF, CR, LF, L4, CR, LF>>

new == <<L1, CR, LF, L2, CR, LF, CR, LF,
         N1, CR, LF, N2, CR, LF, N3, CR, LF, CR, LF,
         L4, CR, LF>>

\* The file system entry of the target path: a file with its stored content, or
\* no file at all.
File(data) == [exists |-> TRUE, data |-> data]

Missing == [exists |-> FALSE, data |-> <<>>]

----------------------------------------------------------------------------
(* Bounds of the model. *)

MaxSegs == 3
MaxRuns == 2
GridCells == 64
SubPixel == 10

----------------------------------------------------------------------------
(* String operations used by the script. *)

\* `pat in t`: pat occurs in t as a contiguous subsequence, starting at index at.
OccursAt(t, pat, at) ==
    /\ at >= 1
    /\ at + Len(pat) - 1 <= Len(t)
    /\ SubSeq(t, at, at + Len(pat) - 1) = pat

Contains(t, pat) == \E at \in 1..(Len(t) + 1) : OccursAt(t, pat, at)

\* str.find + 1: the leftmost start of pat in t, 0 when there is none.
Find(t, pat) ==
    IF Contains(t, pat)
    THEN CHOOSE at \in 1..(Len(t) + 1) :
            /\ OccursAt(t, pat, at)
            /\ \A j \in 1..(at - 1) : ~OccursAt(t, pat, j)
    ELSE 0

\* t.replace(pat, rep, 1): the leftmost occurrence replaced, t when there is none.
ReplaceFirst(t, pat, rep) ==
    LET at == Find(t, pat) IN
    IF at = 0 THEN t
    ELSE SubSeq(t, 1, at - 1) \o rep \o SubSeq(t, at + Len(pat), Len(t))

RECURSIVE DecodeNewlines(_)
\* What read_text hands back: text mode with newline=None translates every
\* "\r\n" and every remaining "\r" of the stored content to "\n".
DecodeNewlines(s) ==
    IF s = <<>> THEN <<>>
    ELSE IF Head(s) = CR
         THEN IF Len(s) >= 2 /\ s[2] = LF
              THEN <<LF>> \o DecodeNewlines(SubSeq(s, 3, Len(s)))
              ELSE <<LF>> \o DecodeNewlines(Tail(s))
         ELSE <<Head(s)>> \o DecodeNewlines(Tail(s))

RECURSIVE EncodeNewlines(_, _)
\* What write_text stores: text mode with newline=None writes every "\n" of
\* the text as os.linesep and every other character as it is.
EncodeNewlines(s, sep) ==
    IF s = <<>> THEN <<>>
    ELSE IF Head(s) = LF
         THEN sep \o EncodeNewlines(Tail(s), sep)
         ELSE <<Head(s)>> \o EncodeNewlines(Tail(s), sep)

AnchorMissing_never(t) == FALSE

\* The guard of the script: `old not in text`.
AnchorMissing(t) == ~Contains(t, old)

\* The process exit status a run ends with.
ExitCode(p) ==
    CASE p = "done" -> 0
      [] p = "anchor_not_found" -> 1
      [] p = "read_error" -> 1
      [] OTHER -> -1

Terminal == {"done", "anchor_not_found", "read_error"}

----------------------------------------------------------------------------
(* The two scripts do not interact: every action of one leaves the         *)
(* variables of the other alone.                                           *)
(*                                                                         *)
(* The stored contents the runs start from: every concatenation of at most *)
(* MaxSegs pieces, where a piece is the anchor, the anchor as a file with  *)
(* LF line ends holds it, the replacement, a part of the anchor, another   *)
(* character, or a lone line terminator.                                   *)

Segments ==
    { old, DecodeNewlines(old), new, <<L1, CR, LF>>, <<"x">>, <<CR>>, <<LF>> }

RECURSIVE Concats(_)
Concats(n) ==
    IF n = 0 THEN { <<>> }
    ELSE LET shorter == Concats(n - 1)
         IN  shorter \cup { p \o s : p \in shorter, s \in Segments }

Contents == Concats(MaxSegs)

\* The icon renderer is not running.
NoImage == [size |-> <<0, 0>>, mode |-> "none"]

IconIdle ==
    /\ ipc = "idle"
    /\ img = NoImage
    /\ probe = <<0, 0>>
    /\ px = <<>>
    /\ i = 0
    /\ calls = <<>>

\* The patcher runs on a file that is there or not, on a platform whose line
\* separator is "\n" or "\r\n"; the icon renderer is not running.
PatcherInit ==
    /\ IconIdle
    /\ fs \in { File(d) : d \in Contents } \cup {Missing}
    /\ linesep \in { <<LF>>, <<CR, LF>> }
    /\ pc = "read"
    /\ text = <<>>
    /\ steps = <<>>
    /\ writes = 0
    /\ fsBefore = fs
    /\ fsInitial = fs
    /\ outcomes = <<>>
    /\ fsAfter = <<>>

ReadText_missingIsEmpty ==
    /\ pc = "read"
    /\ steps' = Append(steps, "read")
    /\ pc' = "guard"
    /\ text' = DecodeNewlines(fs.data)
    /\ UNCHANGED <<outcomes, fsAfter>>
    /\ UNCHANGED <<fs, linesep, writes, fsBefore, fsInitial>>
    /\ UNCHANGED iconVars

\* text = path.read_text(encoding="utf-8"); a missing file raises
\* FileNotFoundError, which ends the run.
ReadText ==
    /\ pc = "read"
    /\ steps' = Append(steps, "read")
    /\ IF ~fs.exists
       THEN /\ pc' = "read_error"
            /\ outcomes' = Append(outcomes, "read_error")
            /\ fsAfter' = Append(fsAfter, fs)
            /\ UNCHANGED text
       ELSE /\ pc' = "guard"
            /\ text' = DecodeNewlines(fs.data)
            /\ UNCHANGED <<outcomes, fsAfter>>
    /\ UNCHANGED <<fs, linesep, writes, fsBefore, fsInitial>>
    /\ UNCHANGED iconVars

\* Lines 5 to 9, which run to the end of the script with nothing in between:
\* the guard raises SystemExit("anchor not found"), or the first occurrence is
\* replaced and the text is written back.
GuardReplaceWrite ==
    /\ pc = "guard"
    /\ IF AnchorMissing(text)
       THEN /\ pc' = "anchor_not_found"
            /\ steps' = Append(steps, "guard")
            /\ outcomes' = Append(outcomes, "anchor_not_found")
            /\ fsAfter' = Append(fsAfter, fs)
            /\ UNCHANGED <<text, fs, writes>>
       ELSE /\ text' = ReplaceFirst(text, old, new)
            /\ fs' = File(EncodeNewlines(text', linesep))
            /\ writes' = writes + 1
            /\ steps' = steps \o <<"guard", "replace", "write">>
            /\ pc' = "done"
            /\ outcomes' = Append(outcomes, "done")
            /\ fsAfter' = Append(fsAfter, fs')
    /\ UNCHANGED <<linesep, fsBefore, fsInitial>>
    /\ UNCHANGED iconVars

\* The script is started again on the file the previous run left.
RunAgain ==
    /\ pc \in Terminal
    /\ Len(outcomes) < MaxRuns
    /\ pc' = "read"
    /\ text' = <<>>
    /\ steps' = <<>>
    /\ writes' = 0
    /\ fsBefore' = fs
    /\ UNCHANGED <<fs, linesep, fsInitial, outcomes, fsAfter>>
    /\ UNCHANGED iconVars

PatcherNext == ReadText \/ GuardReplaceWrite \/ RunAgain

----------------------------------------------------------------------------
(* The icon renderer, create_video_downloader_icon.                        *)
(*                                                                         *)
(* Coordinates handed to the draw calls are kept in units of 1/SubPixel of *)
(* a pixel, so that the float coordinates of the ring dots have a value.   *)
(* The canvas is observed at one pixel, probe, chosen when the run starts; *)
(* px is the value the canvas holds there.                                 *)

size == 1024

Background_opaque == <<0, 0, 0, 255>>

\* The colour Image.new fills the canvas with.
Background == <<0, 0, 0, 0>>

primary_color == <<33, 150, 243, 255>>
secondary_color == <<76, 175, 80, 255>>
accent_color == <<255, 87, 34, 255>>
White == <<255, 255, 255, 255>>

margin == 80
circle_size == size - 2 * margin

triangle_size == 200
center_x == size \div 2
center_y == size \div 2

triangle_points ==
    << <<center_x - triangle_size \div 3, center_y - triangle_size \div 2>>,
       <<center_x - triangle_size \div 3, center_y + triangle_size \div 2>>,
       <<center_x + triangle_size \div 2, center_y>> >>

arrow_y == center_y + 150
arrow_width == 120
arrow_height == 140

shaft_width == 40
shaft_x == center_x - shaft_width \div 2

arrow_points ==
    << <<center_x - arrow_width \div 2, arrow_y>>,
       <<center_x + arrow_width \div 2, arrow_y>>,
       <<center_x, arrow_y + arrow_height \div 3>> >>

RingCount == 8
DotRadius == 8
outer_radius == size \div 2 - 20
inner_radius == outer_radius - 30

\* math.cos and math.sin of i * 45 degrees, in units of 1/TrigUnit.
TrigUnit == 100000

Cos(k) == <<100000, 70711, 0, -70711, -100000, -70711, 0, 70711>>[k + 1]

Sin(k) == <<0, 70711, 100000, 70711, 0, -70711, -100000, -70711>>[k + 1]

\* A whole number of pixels, and the float product r * c, in sub-pixel units.
Sub(v) == v * SubPixel

Times(r, c) == (r * c * SubPixel + TrigUnit \div 2) \div TrigUnit

\* (x1, y1) of the ring loop.
InnerPoint(k) ==
    << Sub(center_x) + Times(inner_radius, Cos(k)),
       Sub(center_y) + Times(inner_radius, Sin(k)) >>

\* (x2, y2) of the ring loop.
OuterPoint(k) ==
    << Sub(center_x) + Times(outer_radius, Cos(k)),
       Sub(center_y) + Times(outer_radius, Sin(k)) >>

SubPoints(pts) == [ n \in DOMAIN pts |-> <<Sub(pts[n][1]), Sub(pts[n][2])>> ]

(* The draw calls of the function, each with its coordinates and its fill. *)

MainCircle ==
    [ kind |-> "ellipse",
      xy   |-> << Sub(margin), Sub(margin),
                  Sub(margin + circle_size), Sub(margin + circle_size) >>,
      fill |-> primary_color ]

PlayTriangle ==
    [ kind |-> "polygon", xy |-> SubPoints(triangle_points), fill |-> White ]

ArrowShaft ==
    [ kind |-> "rectangle",
      xy   |-> << Sub(shaft_x), Sub(arrow_y - 60),
                  Sub(shaft_x + shaft_width), Sub(arrow_y + 20) >>,
      fill |-> secondary_color ]

ArrowHead ==
    [ kind |-> "polygon", xy |-> SubPoints(arrow_points), fill |-> secondary_color ]

RingPoint_inner(k) == InnerPoint(k)

\* The point the dot of iteration k is drawn around.
RingPoint(k) == OuterPoint(k)

RingDot(k) ==
    LET c == RingPoint(k) IN
    [ kind |-> "ellipse",
      xy   |-> << c[1] - Sub(DotRadius), c[2] - Sub(DotRadius),
                  c[1] + Sub(DotRadius), c[2] + Sub(DotRadius) >>,
      fill |-> accent_color ]

(* Which pixels a filled shape covers: the pixel lies in the circle         *)
(* inscribed in the bounding box, in the box, or in the triangle, each     *)
(* with its boundary.                                                      *)

InBox(b, X, Y) == b[1] <= X /\ X <= b[3] /\ b[2] <= Y /\ Y <= b[4]

\* Both ellipses of the function have a square bounding box: a circle.
InCircle(b, X, Y) ==
    /\ InBox(b, X, Y)
    /\ (2 * X - b[1] - b[3]) * (2 * X - b[1] - b[3])
         + (2 * Y - b[2] - b[4]) * (2 * Y - b[2] - b[4])
       <= (b[3] - b[1]) * (b[3] - b[1])

Cross(a, b, X, Y) == (b[1] - a[1]) * (Y - a[2]) - (b[2] - a[2]) * (X - a[1])

InTriangle(t, X, Y) ==
    LET d1 == Cross(t[1], t[2], X, Y)
        d2 == Cross(t[2], t[3], X, Y)
        d3 == Cross(t[3], t[1], X, Y)
    IN  ~( (d1 < 0 \/ d2 < 0 \/ d3 < 0) /\ (d1 > 0 \/ d2 > 0 \/ d3 > 0) )

Covers(shape, p) ==
    LET X == Sub(p[1])
        Y == Sub(p[2])
    IN  CASE shape.kind = "ellipse"   -> InCircle(shape.xy, X, Y)
          [] shape.kind = "rectangle" -> InBox(shape.xy, X, Y)
          [] shape.kind = "polygon"   -> InTriangle(shape.xy, X, Y)

Paint_onlyBlank(shape, p, v) ==
    IF Covers(shape, p) /\ v[4] = 0 THEN shape.fill ELSE v

\* The value at pixel p after a filled shape is drawn onto a canvas that held v
\* there: the fill replaces what was there.
Paint(shape, p, v) == IF Covers(shape, p) THEN shape.fill ELSE v

(* The pixels observed: a grid over the canvas with its four corners, the  *)
(* centre, and the pixels at the inner and the outer point of every ring   *)
(* iteration.                                                              *)

PixelOf(P) == << (P[1] + SubPixel \div 2) \div SubPixel,
                 (P[2] + SubPixel \div 2) \div SubPixel >>

GridLine == { (k * (size - 1)) \div GridCells : k \in 0..GridCells }

Probes ==
    (GridLine \X GridLine)
    \cup { <<center_x, center_y>> }
    \cup { PixelOf(InnerPoint(k)) : k \in 0..(RingCount - 1) }
    \cup { PixelOf(OuterPoint(k)) : k \in 0..(RingCount - 1) }

\* The patcher is not running.
PatcherIdle ==
    /\ fs = Missing
    /\ linesep = <<LF>>
    /\ pc = "idle"
    /\ text = <<>>
    /\ steps = <<>>
    /\ writes = 0
    /\ fsBefore = Missing
    /\ fsInitial = Missing
    /\ outcomes = <<>>
    /\ fsAfter = <<>>

\* The icon renderer starts, observed at any one of the probes; the patcher
\* is not running.
IconInit ==
    /\ PatcherIdle
    /\ ipc = "new"
    /\ img = NoImage
    /\ probe \in Probes
    /\ px = <<>>
    /\ i = 0
    /\ calls = <<>>

\* img = Image.new('RGBA', (size, size), (0, 0, 0, 0))
NewImage ==
    /\ ipc = "new"
    /\ img' = [size |-> <<size, size>>, mode |-> "RGBA"]
    /\ px' = Background
    /\ ipc' = "main_circle"
    /\ UNCHANGED <<probe, i, calls>>
    /\ UNCHANGED patcherVars

\* One draw call: the canvas changes where the shape covers it, and nowhere else.
Draw(shape) ==
    /\ px' = Paint(shape, probe, px)
    /\ calls' = Append(calls, shape)
    /\ UNCHANGED <<img, probe>>
    /\ UNCHANGED patcherVars

DrawMainCircle ==
    /\ ipc = "main_circle"
    /\ Draw(MainCircle)
    /\ ipc' = "play_triangle"
    /\ UNCHANGED i

DrawPlayTriangle ==
    /\ ipc = "play_triangle"
    /\ Draw(PlayTriangle)
    /\ ipc' = "arrow_shaft"
    /\ UNCHANGED i

DrawArrowShaft ==
    /\ ipc = "arrow_shaft"
    /\ Draw(ArrowShaft)
    /\ ipc' = "arrow_head"
    /\ UNCHANGED i

DrawArrowHead ==
    /\ ipc = "arrow_head"
    /\ Draw(ArrowHead)
    /\ ipc' = "ring"
    /\ i' = 0

\* One iteration of `for i in range(8)`.
DrawRingDot ==
    /\ ipc = "ring"
    /\ i < RingCount
    /\ Draw(RingDot(i))
    /\ i' = i + 1
    /\ UNCHANGED ipc

\* range(8) is exhausted: return img.
ReturnImage ==
    /\ ipc = "ring"
    /\ i = RingCount
    /\ ipc' = "returned"
    /\ UNCHANGED <<img, probe, px, i, calls>>
    /\ UNCHANGED patcherVars

IconNext ==
    \/ NewImage
    \/ DrawMainCircle
    \/ DrawPlayTriangle
    \/ DrawArrowShaft
    \/ DrawArrowHead
    \/ DrawRingDot
    \/ ReturnImage

----------------------------------------------------------------------------
(* One specification for each script.                                      *)

PatcherSpec == PatcherInit /\ [][PatcherNext]_vars

IconSpec == IconInit /\ [][IconNext]_vars

----------------------------------------------------------------------------
(* Properties of the patcher. *)

RECURSIVE CountOcc(_, _)
\* The number of occurrences of pat in t, counted from the left without overlap.
CountOcc(t, pat) ==
    LET at == Find(t, pat) IN
    IF at = 0 THEN 0
    ELSE 1 + CountOcc(SubSeq(t, at + Len(pat), Len(t)), pat)

IsPrefix(s, t) == Len(s) <= Len(t) /\ SubSeq(t, 1, Len(s)) = s

Before(t, at) == SubSeq(t, 1, at - 1)

After(t, at, pat) == SubSeq(t, at + Len(pat), Len(t))

\* C1: a run on a file whose stored content does not contain the anchor ends
\* with "anchor not found" and a non-zero exit status, executes no write, and
\* leaves the file exactly as it was; once such a file has been read, the
\* guard is bound to fail.
C1_AnchorAbsent ==
    (fsBefore.exists /\ ~Contains(fsBefore.data, old)) =>
        /\ pc = "guard" => ~Contains(text, old)
        /\ writes = 0
        /\ fs = fsBefore
        /\ pc \in Terminal =>
              /\ pc = "anchor_not_found"
              /\ ExitCode(pc) # 0
              /\ steps = <<"read", "guard">>

C1_Witness ==
    /\ pc = "anchor_not_found"
    /\ fsBefore.exists
    /\ ~Contains(fsBefore.data, old)
    /\ Contains(fsBefore.data, <<CR, LF>>)
    /\ fs = fsBefore

\* C2: a run on a file whose stored content contains the anchor reads a text
\* that contains the anchor, ends successfully with exit status 0, and has
\* overwritten the file once with the content in which the first occurrence
\* of the anchor is replaced by the replacement.
C2_AnchorPresent ==
    (fsBefore.exists /\ Contains(fsBefore.data, old)) =>
        /\ pc = "guard" => Contains(text, old)
        /\ pc \in Terminal =>
              /\ pc = "done"
              /\ ExitCode(pc) = 0
              /\ writes = 1
              /\ fs = File(ReplaceFirst(fsBefore.data, old, new))

\* C3: after a run on a file that holds the anchor exactly once, the file holds
\* the anchor nowhere, holds the replacement, and the text before and the text
\* after the replaced occurrence are as they were.
C3_SingleOccurrence ==
    (pc \in Terminal /\ fsBefore.exists /\ CountOcc(fsBefore.data, old) = 1) =>
        LET at == Find(fsBefore.data, old) IN
        /\ ~Contains(fs.data, old)
        /\ Contains(fs.data, new)
        /\ OccursAt(fs.data, new, at)
        /\ Before(fs.data, at) = Before(fsBefore.data, at)
        /\ After(fs.data, at, new) = After(fsBefore.data, at, old)

\* C4: after a run on a file that holds the anchor two or more times, the
\* leftmost occurrence is replaced, every later occurrence is still there, and
\* the number of occurrences has gone down by one.
C4_MultipleOccurrences ==
    (pc \in Terminal /\ fsBefore.exists /\ CountOcc(fsBefore.data, old) >= 2) =>
        LET at == Find(fsBefore.data, old) IN
        /\ CountOcc(fs.data, old) = CountOcc(fsBefore.data, old) - 1
        /\ OccursAt(fs.data, new, at)
        /\ CountOcc(After(fs.data, at, new), old) = CountOcc(fsBefore.data, old) - 1
        /\ After(fs.data, at, new) = After(fsBefore.data, at, old)

\* C5: the read step hands the script the stored content with its line
\* terminators as stored, and a run on a file that holds the anchor ends with
\* every character outside the replaced occurrence, line terminators included,
\* stored as before.
C5_Frame ==
    fsBefore.exists =>
        /\ pc = "guard" => text = fsBefore.data
        /\ (pc \in Terminal /\ Contains(fsBefore.data, old)) =>
              \E at \in 1..Len(fsBefore.data) :
                 /\ OccursAt(fsBefore.data, old, at)
                 /\ fs.data = Before(fsBefore.data, at) \o new \o After(fsBefore.data, at, old)

\* C6: of two or more consecutive runs that start from a file holding the
\* anchor exactly once, the first succeeds, every later one ends with "anchor
\* not found" and leaves the file as the first run wrote it, and the inserted
\* lines have been added exactly once.
C6_Rerun ==
    (Len(outcomes) >= 2 /\ fsInitial.exists /\ CountOcc(fsInitial.data, old) = 1) =>
        /\ outcomes[1] = "done"
        /\ \A k \in 2..Len(outcomes) :
              /\ outcomes[k] = "anchor_not_found"
              /\ fsAfter[k] = fsAfter[1]
        /\ CountOcc(fs.data, <<N1>>) = CountOcc(fsInitial.data, <<N1>>) + 1

\* C10: the steps of a run happen in the order read, guard, replace, write,
\* with at most one write; a run whose read fails ends right after the read
\* with a fatal error, without a write and with the file neither created nor
\* modified; a write happens only after a successful read and a passed guard.
C10_StepOrder ==
    /\ IsPrefix(steps, <<"read", "guard", "replace", "write">>)
    /\ writes = Cardinality({ k \in DOMAIN steps : steps[k] = "write" })
    /\ writes <= 1
    /\ ~fsBefore.exists =>
          /\ fs = fsBefore
          /\ writes = 0
          /\ pc \in Terminal =>
                /\ pc = "read_error"
                /\ ExitCode(pc) # 0
                /\ steps = <<"read">>
    /\ writes = 1 =>
          /\ fsBefore.exists
          /\ steps = <<"read", "guard", "replace", "write">>
          /\ pc = "done"

C10_Witness ==
    /\ pc = "read_error"
    /\ ~fsBefore.exists
    /\ steps = <<"read">>
    /\ ~fs.exists

----------------------------------------------------------------------------
(* Properties of the icon renderer. *)

Transparent == <<0, 0, 0, 0>>

Corners == { <<0, 0>>, <<1023, 0>>, <<0, 1023>>, <<1023, 1023>> }

\* C7: once created, the canvas is 1024 x 1024 in mode RGBA whatever has been
\* drawn; it is created fully transparent; and in the image the function
\* returns, each of the four corner pixels is still fully transparent.
C7_Canvas ==
    /\ ipc # "new" =>
          /\ img.size = <<1024, 1024>>
          /\ img.mode = "RGBA"
    /\ ipc = "main_circle" => px = Transparent
    /\ (ipc = "returned" /\ probe \in Corners) => px = Transparent

C7_Witness ==
    /\ ipc = "returned"
    /\ probe = <<1023, 1023>>
    /\ px = Transparent
    /\ Len(calls) = 12

\* The shapes in the order the function draws them.
DrawOrder ==
    <<MainCircle, PlayTriangle, ArrowShaft, ArrowHead>>
        \o [ k \in 1..8 |-> RingDot(k - 1) ]

\* The fill of the last of the shapes that covers pixel p; transparent when
\* none does.
TopColour(shapes, p) ==
    LET covering == { n \in DOMAIN shapes : Covers(shapes[n], p) } IN
    IF covering = {} THEN Transparent
    ELSE shapes[CHOOSE n \in covering : \A m \in covering : m <= n].fill

\* C8: the draw calls are made in the order main circle, play triangle, arrow
\* shaft, arrow head, ring dots 0 to 7, filled blue, white, green, green and
\* orange; at every point of the function, and so in the image it returns, a
\* pixel holds the fill of the last shape drawn so far that covers it, and is
\* fully transparent when no shape drawn so far covers it.
C8_Layering ==
    ipc # "new" =>
        /\ Len(calls) <= Len(DrawOrder)
        /\ calls = SubSeq(DrawOrder, 1, Len(calls))
        /\ \A n \in DOMAIN calls :
              calls[n].fill =
                 CASE n = 1         -> <<33, 150, 243, 255>>
                   [] n = 2         -> <<255, 255, 255, 255>>
                   [] n \in {3, 4}  -> <<76, 175, 80, 255>>
                   [] OTHER         -> <<255, 87, 34, 255>>
        /\ px = TopColour(calls, probe)
        /\ ipc = "returned" => calls = DrawOrder

C8_Witness ==
    /\ ipc = "returned"
    /\ px = <<255, 255, 255, 255>>
    /\ Covers(MainCircle, probe)
    /\ Covers(PlayTriangle, probe)

Abs(v) == IF v < 0 THEN -v ELSE v

BoxCentre(b) == << (b[1] + b[3]) \div 2, (b[2] + b[4]) \div 2 >>

\* The centre of an ellipse call lies at distance r from the centre of the
\* canvas in the direction k * 45 degrees, up to the rounding of coordinates.
AtRingPoint(call, r, k) ==
    LET c  == BoxCentre(call.xy)
        dx == c[1] - Sub(512)
        dy == c[2] - Sub(512)
    IN  /\ Abs(dx * dx + dy * dy - Sub(r) * Sub(r)) <= 2 * Sub(r)
        /\ Abs(dx * Sin(k) - dy * Cos(k)) <= TrigUnit
        /\ dx * Cos(k) + dy * Sin(k) > 0

\* C9: the ring loop makes one draw call in each of its 8 iterations and none
\* besides; the call of iteration k draws an orange circle of radius 8 whose
\* centre is at distance 492 from (512, 512) at k * 45 degrees; no circle is
\* drawn around a point at the inner radius 462; in the returned image the
\* pixel at each outer point is orange and the pixel at each inner point is not.
C9_Ring ==
    /\ ipc = "ring" => (i \in 0..8 /\ Len(calls) = 4 + i)
    /\ ipc = "returned" => (i = 8 /\ Len(calls) = 4 + 8)
    /\ \A n \in DOMAIN calls :
          n >= 5 =>
             /\ calls[n].kind = "ellipse"
             /\ calls[n].fill = <<255, 87, 34, 255>>
             /\ calls[n].xy[3] - calls[n].xy[1] = 2 * Sub(8)
             /\ calls[n].xy[4] - calls[n].xy[2] = 2 * Sub(8)
             /\ AtRingPoint(calls[n], 492, n - 5)
    /\ \A n \in DOMAIN calls :
          calls[n].kind = "ellipse" =>
             \A k \in 0..7 : ~AtRingPoint(calls[n], 462, k)
    /\ ipc = "returned" =>
          \A k \in 0..7 :
             /\ probe = PixelOf(OuterPoint(k)) => px = <<255, 87, 34, 255>>
             /\ probe = PixelOf(InnerPoint(k)) => px # <<255, 87, 34, 255>>

C9_Witness ==
    /\ ipc = "returned"
    /\ i = 8
    /\ probe = PixelOf(OuterPoint(3))
    /\ px = <<255, 87, 34, 255>>
    /\ Cardinality({ n \in DOMAIN calls : calls[n].fill = <<255, 87, 34, 255>> }) = 8

====
